---- MODULE Spec2Model ----
(***************************************************************************)
(* Iterative drill-down agent of mit-aichat: the LangGraph workflow        *)
(* (analyze -> execute -> grader -> rewriter/analyze -> respond), its      *)
(* nodes and its conditional edges, modelled from src/app/core.            *)
(*                                                                         *)
(* Python values are tagged records (JNull, JBool, JNum, JStr, JList,      *)
(* JDict); a str is a sequence of one-character strings, a dict is a       *)
(* sequence of key/value pairs in insertion order.  A state key that is    *)
(* not set holds Absent.                                                   *)
(***************************************************************************)
EXTENDS Integers, Sequences, FiniteSets, TLC

VARIABLES
    state,      \* the AgentState threaded through the graph
    pc,         \* the node the graph runs next ("START", a node, "END", "CRASHED"),
                \* "paused"/"ABORTED" at the interrupt of graph_with_hitl,
                \* or "call"/"returned"/"raised" when one node is called on its own
    node,       \* the node that ran last
    reply,      \* what the collaborator (oracle or tool server) answered to that node
    prompt,     \* the request that node sent to the oracle
    arg,        \* the payload handed to the grader's per-element judgment
    out,        \* the verdicts the per-element judgment returned
    rounds,     \* history, kept by the tracked session only: the results of the
                \* rounds of tools executed so far, those of rounds a rewrite
                \* followed apart from the others, the size of the latest round,
                \* and how often execute_node and analyze_node have run
    threads     \* the checkpointer of graph_with_hitl when several sessions run:
                \* the checkpoint stored under each key, and the step taken last

vars == <<state, pc, node, reply, prompt, arg, out, rounds, threads>>

(***************************************************************************)
(* Bounds of the model.                                                    *)
(***************************************************************************)
\* largest counter value a node is called with when it is called on its own
MaxStartCount == 6
\* longest tool_results list handed to a node that is called on its own
MaxResults == 2
\* most nodes one session runs while two sessions are interleaved
MaxThreadSteps == 5

(***************************************************************************)
(* Python values.                                                          *)
(***************************************************************************)
Absent == [t |-> "absent"]
JNull == [t |-> "null"]
JBool(b) == [t |-> "bool", b |-> b]
JNum(n) == [t |-> "num", n |-> n]
JStr(s) == [t |-> "str", s |-> s]
JList(l) == [t |-> "list", l |-> l]
JDict(d) == [t |-> "dict", d |-> d]
KV(k, v) == [k |-> k, v |-> v]

IsList(v) == v.t = "list"
IsDict(v) == v.t = "dict"
IsStr(v) == v.t = "str"

\* dict: `key in d`
HasKey(v, key) == \E i \in 1..Len(v.d) : v.d[i].k = key

\* dict.get(key, default)
DictGet(v, key, default) ==
    IF HasKey(v, key)
    THEN v.d[CHOOSE i \in 1..Len(v.d) : v.d[i].k = key].v
    ELSE default

\* bool(v)
Truthy(v) ==
    CASE v.t = "absent" -> FALSE
      [] v.t = "null" -> FALSE
      [] v.t = "bool" -> v.b
      [] v.t = "num" -> v.n # 0
      [] v.t = "str" -> Len(v.s) > 0
      [] v.t = "list" -> Len(v.l) > 0
      [] v.t = "dict" -> Len(v.d) > 0

(***************************************************************************)
(* Text.                                                                   *)
(***************************************************************************)
UpperCase == <<"A","B","C","D","E","F","G","H","I","J","K","L","M",
               "N","O","P","Q","R","S","T","U","V","W","X","Y","Z">>
LowerCase == <<"a","b","c","d","e","f","g","h","i","j","k","l","m",
               "n","o","p","q","r","s","t","u","v","w","x","y","z">>

\* str.lower()
LowerChar(c) ==
    IF \E i \in 1..26 : UpperCase[i] = c
    THEN LowerCase[CHOOSE i \in 1..26 : UpperCase[i] = c]
    ELSE c
Lower(s) == [i \in 1..Len(s) |-> LowerChar(s[i])]

\* `p in s` for str
Contains(s, p) ==
    \E i \in 0..(Len(s) - Len(p)) : SubSeq(s, i + 1, i + Len(p)) = p

Whitespace == {" ", "\t", "\n", "\r"}

\* str.strip(chars): drop the characters of `chars` from both ends
StripOf(s, chars) ==
    IF \A i \in 1..Len(s) : s[i] \in chars
    THEN <<>>
    ELSE LET first == CHOOSE i \in 1..Len(s) :
                          s[i] \notin chars /\ \A j \in 1..(i - 1) : s[j] \in chars
             last == CHOOSE i \in 1..Len(s) :
                          s[i] \notin chars /\ \A j \in (i + 1)..Len(s) : s[j] \in chars
         IN SubSeq(s, first, last)

\* str.strip()
Strip(s) == StripOf(s, Whitespace)

Digit == <<"0","1","2","3","4","5","6","7","8","9">>

\* str(n) for a non-negative int
RECURSIVE IntText(_)
IntText(n) ==
    IF n < 10 THEN <<Digit[n + 1]>>
    ELSE IntText(n \div 10) \o <<Digit[(n % 10) + 1]>>

\* the escaping json.dumps applies inside a string literal
RECURSIVE Escaped(_)
Escaped(s) ==
    IF s = <<>> THEN <<>>
    ELSE (IF Head(s) \in {"\"", "\\"} THEN <<"\\", Head(s)>> ELSE <<Head(s)>>)
         \o Escaped(Tail(s))

Quoted(s) == <<"\"">> \o Escaped(s) \o <<"\"">>

\* json.dumps(v) with the default separators ", " and ": "
RECURSIVE JsonDumps(_)
RECURSIVE JoinDumps(_, _)
JoinDumps(items, isDict) ==
    IF items = <<>> THEN <<>>
    ELSE (IF isDict
          THEN Quoted(Head(items).k) \o <<":", " ">> \o JsonDumps(Head(items).v)
          ELSE JsonDumps(Head(items)))
         \o (IF Len(items) > 1 THEN <<",", " ">> ELSE <<>>)
         \o JoinDumps(Tail(items), isDict)
JsonDumps(v) ==
    CASE v.t = "null" -> <<"n","u","l","l">>
      [] v.t = "bool" -> IF v.b THEN <<"t","r","u","e">> ELSE <<"f","a","l","s","e">>
      [] v.t = "num" -> IntText(v.n)
      [] v.t = "str" -> Quoted(v.s)
      [] v.t = "list" -> <<"[">> \o JoinDumps(v.l, FALSE) \o <<"]">>
      [] v.t = "dict" -> <<"{">> \o JoinDumps(v.d, TRUE) \o <<"}">>

\* str(v) for a value that is neither a dict nor a list
PyStr(v) ==
    CASE v.t = "null" -> <<"N","o","n","e">>
      [] v.t = "bool" -> IF v.b THEN <<"T","r","u","e">> ELSE <<"F","a","l","s","e">>
      [] v.t = "num" -> IntText(v.n)
      [] v.t = "str" -> v.s

(***************************************************************************)
(* The string literals of the source.                                      *)
(***************************************************************************)
T_error == <<"e","r","r","o","r">>
T_result == <<"r","e","s","u","l","t">>
T_success == <<"s","u","c","c","e","s","s">>
T_data == <<"d","a","t","a">>
T_meta == <<"m","e","t","a">>
T_metadata == <<"m","e","t","a","d","a","t","a">>
T_pagination == <<"p","a","g","i","n","a","t","i","o","n">>
T_tool == <<"t","o","o","l">>
T_args == <<"a","r","g","s">>
T_unknown == <<"u","n","k","n","o","w","n">>
T_count == <<"c","o","u","n","t">>
T_id == <<"i","d">>
T_intent == <<"i","n","t","e","n","t">>
T_entities == <<"e","n","t","i","t","i","e","s">>
T_reasoning == <<"r","e","a","s","o","n","i","n","g">>
T_route == <<"r","o","u","t","e">>
T_tool_plan == <<"t","o","o","l","_","p","l","a","n">>
T_simple_chat == <<"s","i","m","p","l","e","_","c","h","a","t">>
T_enhanced_analysis == <<"e","n","h","a","n","c","e","d","_","a","n","a","l","y","s","i","s">>

(***************************************************************************)
(* grader.py                                                               *)
(***************************************************************************)
BAD_RESULT_PATTERNS == <<
    <<"0"," ","r","e","s","u","l","t","s">>,
    <<"c","o","u","n","t",":"," ","0">>,
    <<"c","o","u","n","t","\"",":","0">>,
    <<"c","o","u","n","t","\"",":"," ","0">>,
    <<"n","o"," ","d","a","t","a"," ","f","o","u","n","d">>,
    <<"N","o"," ","d","a","t","a"," ","f","o","u","n","d">>,
    <<"n","o"," ","r","e","s","u","l","t","s"," ","f","o","u","n","d">>,
    <<"N","o"," ","r","e","s","u","l","t","s"," ","f","o","u","n","d">>
>>

\* the "result" key not unwrapped
_extract_actual_data_data_only(result) ==
    IF IsDict(result) /\ HasKey(result, T_data)
    THEN DictGet(result, T_data, JNull)
    ELSE result

_extract_actual_data(result) ==
    IF IsDict(result)
    THEN IF HasKey(result, T_result) THEN DictGet(result, T_result, JNull)
         ELSE IF HasKey(result, T_data) THEN DictGet(result, T_data, JNull)
         ELSE result
    ELSE result

MetadataKeys == {T_meta, T_metadata, T_pagination, T_success}

\* the structural test with text judged by its length alone
_has_meaningful_data_unstripped(data) ==
    CASE data.t = "null" -> FALSE
      [] data.t = "list" -> Len(data.l) > 0
      [] data.t = "dict" ->
            \E i \in 1..Len(data.d) :
                /\ data.d[i].k \notin MetadataKeys
                /\ data.d[i].v \notin {JNull, JList(<<>>), JDict(<<>>), JStr(<<>>)}
      [] data.t = "str" -> Len(data.s) > 0
      [] OTHER -> TRUE

_has_meaningful_data(data) ==
    CASE data.t = "null" -> FALSE
      [] data.t = "list" -> Len(data.l) > 0
      [] data.t = "dict" ->
            LET data_keys == {i \in 1..Len(data.d) : data.d[i].k \notin MetadataKeys}
            IN  /\ data_keys # {}
                /\ \E i \in data_keys :
                      LET val == data.d[i].v
                      IN  /\ val # JNull
                          /\ val # JList(<<>>)
                          /\ val # JDict(<<>>)
                          /\ val # JStr(<<>>)
      [] data.t = "str" -> Len(Strip(data.s)) > 0
      [] OTHER -> TRUE

\* the text the bad patterns are searched in
ResultStr(actual_data) ==
    IF IsDict(actual_data) \/ IsList(actual_data)
    THEN JsonDumps(actual_data)
    ELSE PyStr(actual_data)

HasBadPattern(actual_data) ==
    \E i \in 1..Len(BAD_RESULT_PATTERNS) :
        Contains(Lower(ResultStr(actual_data)), Lower(BAD_RESULT_PATTERNS[i]))

_check_single_result(item) ==
    IF Truthy(DictGet(item, T_error, JNull)) THEN FALSE
    ELSE LET raw_result == DictGet(item, T_result, JDict(<<>>))
         IN  IF IsDict(raw_result) /\ DictGet(raw_result, T_success, JNull) = JBool(FALSE)
             THEN FALSE
             ELSE LET actual_data == _extract_actual_data(raw_result)
                  IN  IF IsList(actual_data) /\ Len(actual_data.l) > 0 THEN TRUE
                      ELSE IF HasBadPattern(actual_data) THEN FALSE
                      ELSE _has_meaningful_data(actual_data)

\* the loop of _check_result_quality over tool_results[i..]
RECURSIVE AnyResultFrom(_, _)
AnyResultFrom(results, i) ==
    IF i > Len(results) THEN FALSE
    ELSE IF _check_single_result(results[i]) THEN TRUE
    ELSE AnyResultFrom(results, i + 1)

\* only the first tool decides
_check_result_quality_first(tool_results) ==
    IF ~Truthy(tool_results) THEN FALSE
    ELSE _check_single_result(tool_results.l[1])

_check_result_quality(tool_results) ==
    IF ~Truthy(tool_results) THEN FALSE
    ELSE AnyResultFrom(tool_results.l, 1)

(***************************************************************************)
(* state.py                                                                *)
(***************************************************************************)
\* state.get(key, default)
Get(st, key, default) == IF st[key] = Absent THEN default ELSE st[key]

\* messages without its reducer: the update replaces the history
Merge_overwrite(st, update) ==
    [key \in DOMAIN st |-> IF key \in DOMAIN update THEN update[key] ELSE st[key]]

\* LangGraph applies a node's partial update: messages is Annotated with
\* operator.add and is concatenated, every other key is overwritten.
Merge(st, update) ==
    [key \in DOMAIN st |->
        IF key \in DOMAIN update
        THEN IF key = "messages" THEN st[key] \o update[key] ELSE update[key]
        ELSE st[key]]

HumanMessage(content) == [type |-> "human", content |-> content]
AIMessage(content) == [type |-> "ai", content |-> content]

simple_chat == JStr(T_simple_chat)
enhanced_analysis == JStr(T_enhanced_analysis)

(***************************************************************************)
(* analyzer.py                                                             *)
(***************************************************************************)
\* depth at which the analyzer forces a response
MaxDepth == 5

T_attr_error == <<"'","l","i","s","t","'"," ","o","b","j","e","c","t"," ","h","a","s"," ","n","o"," ","a","t","t","r","i","b","u","t","e"," ","'","g","e","t","'">>

\* The oracle's answer to the analyzer, after `json.loads(content)`:
\*   [kind |-> "raise", msg]       llm.ainvoke raised
\*   [kind |-> "unparsable", msg]  json.loads raised
\*   [kind |-> "json", value]      json.loads returned value
\* analysis.get raises AttributeError when value is not a dict.
AnalyzerFails(r) == r.kind # "json" \/ ~IsDict(r.value)
AnalyzerErrorText(r) == IF r.kind = "json" THEN T_attr_error ELSE r.msg

\* the accumulation step left out
Accumulated_unmerged(st) == Get(st, "all_tool_results", JList(<<>>))

\* the results of the round written over the accumulated ones
Accumulated_replaced(st) ==
    LET all_tool_results == Get(st, "all_tool_results", JList(<<>>))
        tool_results == Get(st, "tool_results", JList(<<>>))
    IN  IF Truthy(tool_results) THEN tool_results ELSE all_tool_results

\* all_tool_results after the accumulation step
Accumulated(st) ==
    LET all_tool_results == Get(st, "all_tool_results", JList(<<>>))
        tool_results == Get(st, "tool_results", JList(<<>>))
    IN  IF Truthy(tool_results)
        THEN JList((IF Truthy(all_tool_results) THEN all_tool_results.l ELSE <<>>)
                   \o tool_results.l)
        ELSE all_tool_results

\* all_tool_results[-5:], the results shown to the oracle
LastFive(v) ==
    IF Truthy(v)
    THEN SubSeq(v.l, (IF Len(v.l) > 5 THEN Len(v.l) - 4 ELSE 1), Len(v.l))
    ELSE <<>>

\* "Validate route"
ValidRoute(route) == route \in {simple_chat, enhanced_analysis}

\* the depth valve left out
ForceRespond_never(investigation_depth, route) == FALSE

\* "Force respond if max depth reached"
ForceRespond(investigation_depth, route) ==
    investigation_depth >= MaxDepth /\ route = enhanced_analysis

\* the depth not counted
NewDepth_same(investigation_depth, route) == investigation_depth

\* the depth started afresh when the investigation ends
NewDepth_reset(investigation_depth, route) ==
    IF route = enhanced_analysis THEN investigation_depth + 1 ELSE 0

\* "Increment depth if continuing investigation"
NewDepth(investigation_depth, route) ==
    IF route = enhanced_analysis THEN investigation_depth + 1 ELSE investigation_depth

\* an except branch that asks for the tools once more
OnAnalyzerError_retry(investigation_depth, all_tool_results, e) ==
    [route |-> enhanced_analysis,
     query_analysis |-> JNull,
     tool_plan |-> JList(<<>>),
     all_tool_results |-> all_tool_results,
     investigation_depth |-> investigation_depth + 1]

\* an except branch that answers the user with the error text itself
OnAnalyzerError_answers(investigation_depth, all_tool_results, e) ==
    [route |-> simple_chat,
     query_analysis |-> JDict(<<KV(T_intent, JStr(T_unknown)),
                                KV(T_entities, JList(<<>>)),
                                KV(T_error, JStr(e))>>),
     tool_plan |-> JList(<<>>),
     all_tool_results |-> all_tool_results,
     investigation_depth |-> investigation_depth,
     final_response |-> JStr(e)]

\* `except Exception as e`: what analyze_node returns when the oracle call
\* or the reading of its answer raised e
OnAnalyzerError(investigation_depth, all_tool_results, e) ==
    [route |-> simple_chat,
     query_analysis |-> JDict(<<KV(T_intent, JStr(T_unknown)),
                                KV(T_entities, JList(<<>>)),
                                KV(T_error, JStr(e))>>),
     tool_plan |-> JList(<<>>),
     all_tool_results |-> all_tool_results,
     investigation_depth |-> investigation_depth]

analyze_node(st, r) ==
    LET investigation_depth == st.investigation_depth
        all_tool_results == Accumulated(st)
    IN  IF AnalyzerFails(r)
        THEN OnAnalyzerError(investigation_depth, all_tool_results, AnalyzerErrorText(r))
        ELSE LET analysis == r.value
                 route0 == DictGet(analysis, T_route, simple_chat)
                 query_analysis ==
                     JDict(<<KV(T_intent, DictGet(analysis, T_intent, JStr(<<>>))),
                             KV(T_entities, DictGet(analysis, T_entities, JList(<<>>))),
                             KV(T_reasoning, DictGet(analysis, T_reasoning, JStr(<<>>)))>>)
                 tool_plan0 == DictGet(analysis, T_tool_plan, JList(<<>>))
                 route1 == IF ValidRoute(route0) THEN route0 ELSE simple_chat
                 tool_plan1 == IF ValidRoute(route0) THEN tool_plan0 ELSE JList(<<>>)
                 forced == ForceRespond(investigation_depth, route1)
                 route == IF forced THEN simple_chat ELSE route1
                 tool_plan == IF forced THEN JList(<<>>) ELSE tool_plan1
             IN  [route |-> route,
                  query_analysis |-> query_analysis,
                  tool_plan |-> tool_plan,
                  all_tool_results |-> all_tool_results,
                  investigation_depth |-> NewDepth(investigation_depth, route)]

(***************************************************************************)
(* grader.py: the node                                                     *)
(***************************************************************************)
\* number of rewrites after which bad data is accepted
MaxRetries == 3

\* the retry valve left out of the grader
RetriesExhausted_never(retry_count) == FALSE

\* "Safety valve: if we've retried too many times, accept whatever we have"
RetriesExhausted(retry_count) == retry_count >= MaxRetries

grader_node(st) ==
    LET tool_results == Get(st, "tool_results", JList(<<>>))
        retry_count == st.retry_count
    IN  IF RetriesExhausted(retry_count)
        THEN [data_quality |-> "good"]
        ELSE [data_quality |-> IF _check_result_quality(tool_results) THEN "good" ELSE "bad"]

(***************************************************************************)
(* rewriter.py                                                             *)
(***************************************************************************)
T_retrying == <<"R","e","t","r","y","i","n","g"," ","s","e","a","r","c","h"," ","w","i","t","h",":"," ","'">>

\* `for item in tool_results` raises TypeError on None
rewriter_raises(st) ==
    /\ st.retry_count < MaxRetries
    /\ Get(st, "tool_results", JList(<<>>)) = JNull

\* response.content.strip().strip('"').strip("'")
RewrittenQuery(content) == StripOf(StripOf(Strip(content), {"\""}), {"'"})

\* a rewriter that leaves the results of the failed round in place
rewriter_node_keeps_round(st, content) ==
    LET retry_count == st.retry_count
    IN  IF retry_count >= MaxRetries
        THEN [retry_count |-> retry_count, data_quality |-> "good"]
        ELSE [user_query |-> RewrittenQuery(content),
              retry_count |-> retry_count + 1,
              messages |-> <<HumanMessage(T_retrying \o RewrittenQuery(content) \o <<"'">>)>>,
              query_analysis |-> JNull]

\* a rewriter without its early return
rewriter_node_no_safety_net(st, content) ==
    [user_query |-> RewrittenQuery(content),
     retry_count |-> st.retry_count + 1,
     messages |-> <<HumanMessage(T_retrying \o RewrittenQuery(content) \o <<"'">>)>>,
     tool_plan |-> JNull,
     tool_results |-> JNull,
     query_analysis |-> JNull]

rewriter_node(st, content) ==
    LET retry_count == st.retry_count
    IN  IF retry_count >= MaxRetries
        THEN [retry_count |-> retry_count, data_quality |-> "good"]
        ELSE LET rewritten_query == RewrittenQuery(content)
             IN  [user_query |-> rewritten_query,
                  retry_count |-> retry_count + 1,
                  messages |-> <<HumanMessage(T_retrying \o rewritten_query \o <<"'">>)>>,
                  tool_plan |-> JNull,
                  tool_results |-> JNull,
                  query_analysis |-> JNull]

(***************************************************************************)
(* responder.py                                                            *)
(***************************************************************************)
\* `x or []`
OrEmpty(v) == IF Truthy(v) THEN v ELSE JList(<<>>)

results_to_use(st) ==
    LET tool_results == OrEmpty(st.tool_results)
        all_tool_results == OrEmpty(st.all_tool_results)
    IN  IF Truthy(all_tool_results) THEN all_tool_results ELSE tool_results

\* the prompt chosen by the route
ResponderPrompt_by_route(st) ==
    IF Get(st, "route", simple_chat) = enhanced_analysis
    THEN [node |-> "respond", kind |-> "ENHANCED_ANALYSIS_PROMPT",
          evidence |-> results_to_use(st).l]
    ELSE [node |-> "respond", kind |-> "SIMPLE_CHAT_PROMPT", evidence |-> <<>>]

\* the system prompt respond_node sends and the results embedded in it
ResponderPrompt(st) ==
    IF Truthy(results_to_use(st))
    THEN [node |-> "respond", kind |-> "ENHANCED_ANALYSIS_PROMPT",
          evidence |-> results_to_use(st).l]
    ELSE [node |-> "respond", kind |-> "SIMPLE_CHAT_PROMPT", evidence |-> <<>>]

\* a responder that hands the result lists on as it found them
respond_node_passthrough(st, content) ==
    [final_response |-> JStr(content),
     messages |-> <<HumanMessage(st.user_query), AIMessage(content)>>,
     tool_results |-> st.tool_results,
     all_tool_results |-> st.all_tool_results]

respond_node(st, content) ==
    [final_response |-> JStr(content),
     messages |-> <<HumanMessage(st.user_query), AIMessage(content)>>,
     tool_results |-> OrEmpty(st.tool_results),
     all_tool_results |-> OrEmpty(st.all_tool_results)]

(***************************************************************************)
(* edges.py                                                                *)
(***************************************************************************)
\* the two routes swapped
route_decision_swapped(st) ==
    IF Get(st, "route", simple_chat) = enhanced_analysis THEN "respond" ELSE "execute"

route_decision(st) ==
    LET route == Get(st, "route", simple_chat)
    IN  IF route = enhanced_analysis THEN "execute" ELSE "respond"

grader_decision(st) ==
    LET data_quality == st.data_quality
        retry_count == st.retry_count
        investigation_depth == st.investigation_depth
    IN  IF data_quality = "bad" /\ retry_count < MaxRetries THEN "rewrite"
        ELSE IF investigation_depth >= MaxDepth THEN "analyze"
        ELSE "analyze"

(***************************************************************************)
(* tools/mcp/client.py                                                     *)
(***************************************************************************)
T_status_prefix == <<"M","C","P"," ","s","e","r","v","e","r"," ","r","e","t","u","r","n","e","d"," ","s","t","a","t","u","s"," ">>

\* failures reported without the success flag
execute_tool_no_flag(http) ==
    CASE http.kind = "ok" -> http.body
      [] http.kind = "status" ->
            JDict(<<KV(T_error, JStr(T_status_prefix \o IntText(http.status)
                                     \o <<":", " ">> \o http.text))>>)
      [] http.kind = "exception" ->
            JDict(<<KV(T_error, JStr(http.msg))>>)

\* MCPClient.execute_tool, given what the HTTP exchange did:
\*   [kind |-> "ok", body]              status 200 with a JSON body
\*   [kind |-> "status", status, text]  any other status
\*   [kind |-> "exception", msg]        the exchange raised
execute_tool(http) ==
    CASE http.kind = "ok" -> http.body
      [] http.kind = "status" ->
            JDict(<<KV(T_error, JStr(T_status_prefix \o IntText(http.status)
                                     \o <<":", " ">> \o http.text)),
                    KV(T_success, JBool(FALSE))>>)
      [] http.kind = "exception" ->
            JDict(<<KV(T_error, JStr(http.msg)), KV(T_success, JBool(FALSE))>>)

(***************************************************************************)
(* nodes/executor.py                                                       *)
(***************************************************************************)
\* one element of tool_results
ResultItem(tool, args, result) ==
    JDict(<<KV(T_tool, tool), KV(T_args, args), KV(T_result, result)>>)

\* execute_node runs every entry of tool_plan through execute_tool and
\* stores the list of results as tool_results; https[i] is what the HTTP
\* exchange of entry i did.
execute_node(st, https) ==
    LET tool_plan == OrEmpty(st.tool_plan).l
    IN  [tool_results |->
            JList([i \in 1..Len(tool_plan) |->
                      ResultItem(DictGet(tool_plan[i], T_tool, JNull),
                                 DictGet(tool_plan[i], T_args, JDict(<<>>)),
                                 execute_tool(https[i]))])]

(***************************************************************************)
(* graph.py                                                                *)
(***************************************************************************)
\* the path maps of add_conditional_edges
Target(label) ==
    CASE label = "execute" -> "execute"
      [] label = "respond" -> "respond"
      [] label = "analyze" -> "analyze"
      [] label = "rewrite" -> "rewriter"

(***************************************************************************)
(* What the collaborators may answer.                                      *)
(***************************************************************************)
T_a == <<"a">>
T_b == <<"b">>
T_done == <<"d","o","n","e">>
T_timeout == <<"t","i","m","e","o","u","t">>
T_expecting == <<"E","x","p","e","c","t","i","n","g"," ","v","a","l","u","e">>
T_query == <<"a","c","m","e","-","c","a","r","t">>
T_acme_cart == <<"a","c","m","e"," ","c","a","r","t">>
T_answer == <<"o","k">>

PlanEntry(tool) == JDict(<<KV(T_tool, JStr(tool)), KV(T_args, JDict(<<>>))>>)

\* the tool_plan field of a decision: missing, or a list of entries
Plans == {Absent, JList(<<>>), JList(<<PlanEntry(T_a)>>),
          JList(<<PlanEntry(T_a), PlanEntry(T_b)>>)}

\* the route field of a decision: missing, one of the two routes, or another value
Routes == {Absent, simple_chat, enhanced_analysis, JStr(T_done)}

Decision(route, plan) ==
    JDict((IF route = Absent THEN <<>> ELSE <<KV(T_route, route)>>)
          \o <<KV(T_reasoning, JStr(T_answer))>>
          \o (IF plan = Absent THEN <<>> ELSE <<KV(T_tool_plan, plan)>>))

AnalyzerReplies ==
    {[kind |-> "raise", msg |-> T_timeout],
     [kind |-> "unparsable", msg |-> T_expecting],
     [kind |-> "json", value |-> JList(<<>>)]}
    \cup {[kind |-> "json", value |-> Decision(route, plan)] :
              route \in Routes, plan \in Plans}

\* the text the oracle may return to the rewriter
RewriterReplies ==
    {T_acme_cart,
     <<"\"">> \o T_acme_cart \o <<"\"", "\n">>,
     <<>>,
     <<" ", "\n">>,
     <<"\"", "\"">>,
     <<"'", "'">>}

ResponderReplies == {T_answer}

GoodBody ==
    JDict(<<KV(T_success, JBool(TRUE)),
            KV(T_result, JList(<<JDict(<<KV(T_id, JNum(1529))>>)>>))>>)
EmptyBody == JDict(<<KV(T_success, JBool(TRUE)), KV(T_result, JList(<<>>))>>)

HttpOutcomes ==
    {[kind |-> "ok", body |-> GoodBody],
     [kind |-> "exception", msg |-> T_timeout]}

NoReply == [kind |-> "none"]
NoPrompt == [node |-> "none", kind |-> "none", evidence |-> <<>>]
NoVerdicts == [direct |-> FALSE, wrapped |-> FALSE, flagged |-> FALSE]
NoThreads == [store |-> <<>>, ran |-> [thread |-> "none", node |-> "none", reply |-> [kind |-> "none"]]]
NoRounds == [kept |-> <<>>, rewritten |-> <<>>, latest |-> 0,
             executed |-> 0, decided |-> 0]

(***************************************************************************)
(* The session: graph.ainvoke on a ChatInput (server.py).                  *)
(***************************************************************************)
ChatInput(all_tool_results) ==
    [messages |-> <<>>,
     user_query |-> T_query,
     route |-> Absent,
     query_analysis |-> Absent,
     tool_plan |-> Absent,
     tool_results |-> Absent,
     all_tool_results |-> all_tool_results,
     final_response |-> Absent,
     retry_count |-> 0,
     data_quality |-> "good",
     investigation_depth |-> 0]

Init ==
    /\ state \in {ChatInput(JNull), ChatInput(JList(<<>>))}
    /\ pc = "START"
    /\ node = "none"
    /\ reply = NoReply
    /\ prompt = NoPrompt
    /\ arg = JNull
    /\ out = NoVerdicts
    /\ rounds = NoRounds
    /\ threads = NoThreads

\* START -> analyze
Start ==
    /\ pc = "START"
    /\ pc' = "analyze"
    /\ node' = "START"
    /\ UNCHANGED <<state, reply, prompt, arg, out, rounds, threads>>

AnalyzeStep(r) ==
    /\ state' = Merge(state, analyze_node(state, r))
    /\ node' = "analyze"
    /\ reply' = r
    /\ prompt' = [node |-> "analyze", kind |-> "INVESTIGATOR_PROMPT",
                  evidence |-> LastFive(Accumulated(state))]
    /\ UNCHANGED <<arg, out>>

Analyze ==
    /\ pc = "analyze"
    /\ \E r \in AnalyzerReplies : AnalyzeStep(r)
    /\ pc' = Target(route_decision(state'))
    /\ UNCHANGED <<rounds, threads>>

ExecuteStep(https) ==
    /\ state' = Merge(state, execute_node(state, https))
    /\ node' = "execute"
    /\ reply' = [kind |-> "tools", https |-> https]
    /\ prompt' = NoPrompt
    /\ UNCHANGED <<arg, out>>

Execute ==
    /\ pc = "execute"
    /\ \E https \in [1..Len(OrEmpty(state.tool_plan).l) -> HttpOutcomes] :
          ExecuteStep(https)
    /\ pc' = "grader"
    /\ UNCHANGED <<rounds, threads>>

GraderStep ==
    /\ state' = Merge(state, grader_node(state))
    /\ node' = "grader"
    /\ reply' = NoReply
    /\ prompt' = NoPrompt
    /\ UNCHANGED <<arg, out>>

Grader ==
    /\ pc = "grader"
    /\ GraderStep
    /\ pc' = Target(grader_decision(state'))
    /\ UNCHANGED <<rounds, threads>>

RewriterStep ==
    /\ ~rewriter_raises(state)
    /\ IF state.retry_count >= MaxRetries
       THEN /\ state' = Merge(state, rewriter_node(state, <<>>))
            /\ reply' = NoReply
            /\ prompt' = NoPrompt
       ELSE \E content \in RewriterReplies :
               /\ state' = Merge(state, rewriter_node(state, content))
               /\ reply' = [kind |-> "text", content |-> content]
               /\ prompt' = [node |-> "rewriter", kind |-> "REWRITER_SYSTEM_PROMPT",
                             evidence |-> OrEmpty(state.tool_results).l]
    /\ node' = "rewriter"
    /\ UNCHANGED <<arg, out>>

Rewriter ==
    /\ pc = "rewriter"
    /\ RewriterStep
    /\ pc' = "analyze"
    /\ UNCHANGED <<rounds, threads>>

\* rewriter_node does not catch: a TypeError of its loop or an exception of
\* llm.ainvoke ends graph.ainvoke
RewriterRaises ==
    /\ pc = "rewriter"
    /\ state.retry_count < MaxRetries
    /\ pc' = "CRASHED"
    /\ node' = "rewriter"
    /\ reply' = [kind |-> "raise", msg |-> T_timeout]
    /\ UNCHANGED <<state, prompt, arg, out, rounds, threads>>

RespondStep ==
    /\ \E content \in ResponderReplies :
          /\ state' = Merge(state, respond_node(state, content))
          /\ reply' = [kind |-> "text", content |-> content]
    /\ prompt' = ResponderPrompt(state)
    /\ node' = "respond"
    /\ UNCHANGED <<arg, out>>

\* respond -> END
Respond ==
    /\ pc = "respond"
    /\ RespondStep
    /\ pc' = "END"
    /\ UNCHANGED <<rounds, threads>>

\* respond_node does not catch an exception of llm.ainvoke
RespondRaises ==
    /\ pc = "respond"
    /\ pc' = "CRASHED"
    /\ node' = "respond"
    /\ reply' = [kind |-> "raise", msg |-> T_timeout]
    /\ prompt' = ResponderPrompt(state)
    /\ UNCHANGED <<state, arg, out, rounds, threads>>

\* the steps in which every oracle call returns
NextReturns ==
    \/ Start
    \/ Analyze
    \/ Execute
    \/ Grader
    \/ Rewriter
    \/ Respond

Next ==
    \/ Start
    \/ Analyze
    \/ Execute
    \/ Grader
    \/ Rewriter
    \/ RewriterRaises
    \/ Respond
    \/ RespondRaises

Spec == Init /\ [][Next]_vars

\* graph.ainvoke runs the next node as long as there is one
LiveSpec == Init /\ [][NextReturns]_vars /\ WF_vars(NextReturns)

(***************************************************************************)
(* graph_with_hitl: the same workflow compiled with a checkpointer and     *)
(* interrupt_before=["execute"].  The run stops when the next node is in   *)
(* interrupt_before; the checkpoint holds state and the next node.  The    *)
(* caller then resumes the thread, or never does.                          *)
(***************************************************************************)
interrupt_before == {"execute"}

\* a workflow compiled without interrupt_before
Interrupted_never(next) == next

\* where the run stands after a node whose successor is next
Interrupted(next) == IF next \in interrupt_before THEN "paused" ELSE next

HitlAnalyze ==
    /\ pc = "analyze"
    /\ \E r \in AnalyzerReplies : AnalyzeStep(r)
    /\ pc' = Interrupted(Target(route_decision(state')))
    /\ UNCHANGED <<rounds, threads>>

HitlGrader ==
    /\ pc = "grader"
    /\ GraderStep
    /\ pc' = Interrupted(Target(grader_decision(state')))
    /\ UNCHANGED <<rounds, threads>>

HitlRewriter ==
    /\ pc = "rewriter"
    /\ RewriterStep
    /\ pc' = Interrupted("analyze")
    /\ UNCHANGED <<rounds, threads>>

\* the caller invokes the thread again with no input: the run goes on with
\* the node it stopped before
Resume ==
    /\ pc = "paused"
    /\ pc' = "execute"
    /\ UNCHANGED <<state, node, reply, prompt, arg, out, rounds, threads>>

\* the caller gives the thread up
Abort ==
    /\ pc = "paused"
    /\ pc' = "ABORTED"
    /\ UNCHANGED <<state, node, reply, prompt, arg, out, rounds, threads>>

HitlNext ==
    \/ Start
    \/ HitlAnalyze
    \/ Resume
    \/ Abort
    \/ Execute
    \/ HitlGrader
    \/ HitlRewriter
    \/ RewriterRaises
    \/ Respond
    \/ RespondRaises

HitlSpec == Init /\ [][HitlNext]_vars

(***************************************************************************)
(* The session with its history: every round of tools execute_node ran,    *)
(* and whether rewriter_node rewrote the query after it.                   *)
(***************************************************************************)
TrackedAnalyze ==
    /\ pc = "analyze"
    /\ \E r \in AnalyzerReplies : AnalyzeStep(r)
    /\ pc' = Target(route_decision(state'))
    /\ rounds' = [rounds EXCEPT !.decided = @ + 1]
    /\ UNCHANGED threads

TrackedExecute ==
    /\ pc = "execute"
    /\ \E https \in [1..Len(OrEmpty(state.tool_plan).l) -> HttpOutcomes] :
          ExecuteStep(https)
    /\ pc' = "grader"
    /\ rounds' = [kept |-> rounds.kept \o OrEmpty(state'.tool_results).l,
                  rewritten |-> rounds.rewritten,
                  latest |-> Len(OrEmpty(state'.tool_results).l),
                  executed |-> rounds.executed + 1,
                  decided |-> rounds.decided]
    /\ UNCHANGED threads

TrackedRewriter ==
    /\ pc = "rewriter"
    /\ RewriterStep
    /\ pc' = "analyze"
    /\ rounds' = IF state.retry_count < MaxRetries
                 THEN LET n == Len(rounds.kept) - rounds.latest
                      IN  [kept |-> SubSeq(rounds.kept, 1, n),
                           rewritten |-> rounds.rewritten
                                         \o SubSeq(rounds.kept, n + 1, Len(rounds.kept)),
                           latest |-> 0,
                           executed |-> rounds.executed,
                           decided |-> rounds.decided]
                 ELSE rounds
    /\ UNCHANGED threads

TrackedNext ==
    \/ Start
    \/ TrackedAnalyze
    \/ TrackedExecute
    \/ Grader
    \/ TrackedRewriter
    \/ RewriterRaises
    \/ Respond
    \/ RespondRaises

TrackedSpec == Init /\ [][TrackedNext]_vars

\* graph_with_hitl with the same history
TrackedHitlAnalyze ==
    /\ pc = "analyze"
    /\ \E r \in AnalyzerReplies : AnalyzeStep(r)
    /\ pc' = Interrupted(Target(route_decision(state')))
    /\ rounds' = [rounds EXCEPT !.decided = @ + 1]
    /\ UNCHANGED threads

TrackedHitlNext ==
    \/ Start
    \/ TrackedHitlAnalyze
    \/ Resume
    \/ Abort
    \/ TrackedExecute
    \/ HitlGrader
    \/ TrackedRewriter
    \/ RewriterRaises
    \/ Respond
    \/ RespondRaises

TrackedHitlSpec == Init /\ [][TrackedHitlNext]_vars

(***************************************************************************)
(* Two sessions of graph_with_hitl, their nodes interleaved in any order.  *)
(* The module-level MemorySaver is the one object the sessions share: a    *)
(* run reads the checkpoint stored under its thread_id, runs the next node *)
(* on that state, and stores the new checkpoint under the same thread_id.  *)
(* The nodes keep nothing between calls (analyze_node builds its MCPClient *)
(* and its llm on every call).                                             *)
(***************************************************************************)
ThreadIds == {"t1", "t2"}

\* a store that keeps one checkpoint for all threads
CheckpointKey_shared(thread_id) == "t1"

\* the key of a run's checkpoint: config["configurable"]["thread_id"]
CheckpointKey(thread_id) == thread_id

\* the query each session is started with
QueryOf(thread_id) == IF thread_id = "t1" THEN T_query ELSE T_acme_cart

\* what the collaborators answer while two sessions are interleaved
ThreadAnalyzerReplies ==
    {[kind |-> "raise", msg |-> T_timeout],
     [kind |-> "json", value |-> Decision(simple_chat, JList(<<>>))],
     [kind |-> "json", value |-> Decision(enhanced_analysis, JList(<<PlanEntry(T_a)>>))]}

\* the answers a node of a session may get
Replies(name, st) ==
    CASE name = "analyze" -> ThreadAnalyzerReplies
      [] name = "execute" -> [1..Len(OrEmpty(st.tool_plan).l) -> HttpOutcomes]
      [] name = "grader" -> {NoReply}
      [] name = "rewriter" -> {T_acme_cart}
      [] name = "respond" -> ResponderReplies

\* the update a node returns
NodeUpdate(name, st, r) ==
    CASE name = "analyze" -> analyze_node(st, r)
      [] name = "execute" -> execute_node(st, r)
      [] name = "grader" -> grader_node(st)
      [] name = "rewriter" -> rewriter_node(st, r)
      [] name = "respond" -> respond_node(st, r)

\* the edge out of a node
NextNode(name, st) ==
    CASE name = "analyze" -> Target(route_decision(st))
      [] name = "execute" -> "grader"
      [] name = "grader" -> Target(grader_decision(st))
      [] name = "rewriter" -> "analyze"
      [] name = "respond" -> "END"

PairInit ==
    /\ state = ChatInput(JNull)
    /\ pc = "threads"
    /\ node = "none"
    /\ reply = NoReply
    /\ prompt = NoPrompt
    /\ arg = JNull
    /\ out = NoVerdicts
    /\ rounds = NoRounds
    /\ threads = [store |-> [k \in ThreadIds |->
                                [state |-> [ChatInput(JNull) EXCEPT !.user_query = QueryOf(k)],
                                 next |-> "START",
                                 steps |-> 0]],
                  ran |-> NoThreads.ran]

\* the run of thread_id goes from its checkpoint to next, leaving state alone
ThreadMove(thread_id, from, next) ==
    LET key == CheckpointKey(thread_id)
    IN  /\ threads.store[key].next = from
        /\ threads' = [store |-> [threads.store EXCEPT ![key].next = next],
                       ran |-> [thread |-> thread_id, node |-> from, reply |-> NoReply]]
        /\ UNCHANGED <<state, pc, node, reply, prompt, arg, out, rounds>>

ThreadStart == \E t \in ThreadIds : ThreadMove(t, "START", "analyze")

ThreadResume == \E t \in ThreadIds : ThreadMove(t, "paused", "execute")

ThreadAbort == \E t \in ThreadIds : ThreadMove(t, "paused", "ABORTED")

\* the run of some thread executes its next node
ThreadStep ==
    \E t \in ThreadIds :
        LET key == CheckpointKey(t)
            cp == threads.store[key]
        IN  /\ cp.next \in {"analyze", "execute", "grader", "rewriter", "respond"}
            /\ cp.steps < MaxThreadSteps
            /\ ~(cp.next = "rewriter" /\ rewriter_raises(cp.state))
            /\ \E r \in Replies(cp.next, cp.state) :
                  LET after == Merge(cp.state, NodeUpdate(cp.next, cp.state, r))
                  IN  threads' =
                        [store |-> [threads.store EXCEPT ![key] =
                                       [state |-> after,
                                        next |-> Interrupted(NextNode(cp.next, after)),
                                        steps |-> cp.steps + 1]],
                         ran |-> [thread |-> t, node |-> cp.next, reply |-> r]]
            /\ UNCHANGED <<state, pc, node, reply, prompt, arg, out, rounds>>

PairNext ==
    \/ ThreadStart
    \/ ThreadStep
    \/ ThreadResume
    \/ ThreadAbort

PairSpec == PairInit /\ [][PairNext]_vars

(***************************************************************************)
(* One node called on its own, on any state a caller may hand it.          *)
(***************************************************************************)
T_boom == <<"b","o","o","m">>
T_abc == <<"a","b","c">>
T_zero_results == <<"0"," ","r","e","s","u","l","t","s">>
T_no_data == <<"N","o"," ","D","a","t","a"," ","F","o","u","n","d">>

ItemOf(result) == ResultItem(JStr(T_a), JDict(<<>>), result)

CallItems ==
    {ItemOf(GoodBody),
     ItemOf(EmptyBody),
     ItemOf(execute_tool([kind |-> "exception", msg |-> T_timeout])),
     ItemOf(execute_tool([kind |-> "status", status |-> 500, text |-> T_boom]))}

\* the lists of at most n elements of S
RECURSIVE SeqsUpTo(_, _)
SeqsUpTo(S, n) ==
    IF n = 0 THEN {<<>>}
    ELSE LET shorter == SeqsUpTo(S, n - 1)
         IN  shorter \cup {Append(l, x) : l \in shorter, x \in S}

ResultLists == {Absent, JNull} \cup {JList(l) : l \in SeqsUpTo(CallItems, MaxResults)}

CallState(route, tool_results, all_tool_results, retry_count, data_quality, depth) ==
    [messages |-> <<>>,
     user_query |-> T_query,
     route |-> route,
     query_analysis |-> Absent,
     tool_plan |-> Absent,
     tool_results |-> tool_results,
     all_tool_results |-> all_tool_results,
     final_response |-> Absent,
     retry_count |-> retry_count,
     data_quality |-> data_quality,
     investigation_depth |-> depth]

CallStates ==
    {CallState(Absent, tr, JList(<<>>), rc, dq, 0) :
        tr \in ResultLists, rc \in 0..MaxStartCount, dq \in {"good", "bad"}}
    \cup
    {CallState(route, tr, all, 0, "good", depth) :
        route \in {Absent, simple_chat, enhanced_analysis},
        tr \in ResultLists,
        all \in {JNull, JList(<<>>), JList(<<ItemOf(GoodBody)>>)},
        depth \in 0..MaxStartCount}
    \cup
    {[CallState(enhanced_analysis, Absent, JList(<<>>), rc, "good", depth)
         EXCEPT !.tool_plan = plan] :
        plan \in Plans \ {Absent}, rc \in 0..MaxStartCount, depth \in 0..MaxStartCount}

\* the payloads a tool may return
Scalars ==
    {JNull, JBool(TRUE), JBool(FALSE), JNum(0), JNum(3),
     JStr(<<>>), JStr(<<" ">>), JStr(T_abc), JStr(T_zero_results), JStr(T_no_data)}
Inner ==
    Scalars \cup {JList(<<>>), JList(<<JNum(1)>>), JList(<<JStr(T_zero_results)>>),
                  JDict(<<>>), JDict(<<KV(T_id, JNum(5))>>)}
Payloads ==
    Inner
    \cup {JDict(<<KV(k, v)>>) :
             k \in {T_result, T_data, T_success, T_error, T_count, T_meta, T_id},
             v \in Inner}
    \cup {JDict(<<KV(k, v), KV(T_id, JNum(5))>>) :
             k \in {T_result, T_data, T_success, T_meta}, v \in Inner}

\* the envelope of the Manifest API around a payload
Envelope(x) == JDict(<<KV(T_success, JBool(TRUE)), KV(T_result, x)>>)

CallInit ==
    /\ \/ /\ pc = "call"
          /\ state \in CallStates
          /\ arg = JNull
       \/ /\ pc = "judge"
          /\ state = ChatInput(JNull)
          /\ arg \in Payloads
    /\ node = "none"
    /\ reply = NoReply
    /\ prompt = NoPrompt
    /\ out = NoVerdicts
    /\ rounds = NoRounds
    /\ threads = NoThreads

CallAnalyze ==
    /\ pc = "call"
    /\ \E r \in AnalyzerReplies : AnalyzeStep(r)
    /\ pc' = "returned"
    /\ UNCHANGED <<rounds, threads>>

CallGrader ==
    /\ pc = "call"
    /\ GraderStep
    /\ pc' = "returned"
    /\ UNCHANGED <<rounds, threads>>

CallExecute ==
    /\ pc = "call"
    /\ \E https \in [1..Len(OrEmpty(state.tool_plan).l) -> HttpOutcomes] :
          ExecuteStep(https)
    /\ pc' = "returned"
    /\ UNCHANGED <<rounds, threads>>

CallRewriter ==
    /\ pc = "call"
    /\ RewriterStep
    /\ pc' = "returned"
    /\ UNCHANGED <<rounds, threads>>

CallRewriterRaises ==
    /\ pc = "call"
    /\ state.retry_count < MaxRetries
    /\ pc' = "raised"
    /\ node' = "rewriter"
    /\ reply' = [kind |-> "raise", msg |-> T_timeout]
    /\ UNCHANGED <<state, prompt, arg, out, rounds, threads>>

CallRespond ==
    /\ pc = "call"
    /\ RespondStep
    /\ pc' = "returned"
    /\ UNCHANGED <<rounds, threads>>

\* an element that carries an error field of its own next to its result
FlaggedItem(result) ==
    JDict(<<KV(T_tool, JStr(T_a)), KV(T_error, JStr(T_boom)), KV(T_result, result)>>)

\* _check_single_result on the element holding arg, on the element holding
\* arg inside the envelope, and on the element holding arg and an error field
Judge ==
    /\ pc = "judge"
    /\ out' = [direct |-> _check_single_result(ItemOf(arg)),
               wrapped |-> _check_single_result(ItemOf(Envelope(arg))),
               flagged |-> _check_single_result(FlaggedItem(arg))]
    /\ pc' = "judged"
    /\ node' = "_check_single_result"
    /\ UNCHANGED <<state, reply, prompt, arg, rounds, threads>>

CallNext ==
    \/ CallAnalyze
    \/ CallExecute
    \/ CallGrader
    \/ CallRewriter
    \/ CallRewriterRaises
    \/ CallRespond
    \/ Judge

CallSpec == CallInit /\ [][CallNext]_vars

(***************************************************************************)
(* Properties.                                                             *)
(***************************************************************************)
\* the oracle's decision asks for another round of tools
OracleSaysEnhanced(r) ==
    /\ r.kind = "json"
    /\ IsDict(r.value)
    /\ DictGet(r.value, T_route, Absent) = enhanced_analysis

\* no element of tool_results is judged meaningful
NoneMeaningful(tool_results) ==
    \A i \in 1..Len(OrEmpty(tool_results).l) :
        ~_check_single_result(OrEmpty(tool_results).l[i])

\* the steps a session can still take: four per round of tools that is left,
\* plus the place of the next node within the round
Rank ==
    4 * (5 - state.investigation_depth)
    + CASE pc = "END" -> 0
        [] pc = "respond" -> 1
        [] pc = "analyze" -> 2
        [] pc = "rewriter" -> 3
        [] pc = "START" -> 3
        [] pc = "grader" -> 4
        [] pc = "execute" -> 5

\* C1: when every oracle call and every tool call returns, a session started
\* with both counters at 0 eventually runs respond and reaches END, whatever
\* the oracle decides and whatever the tools return: every step brings the
\* session nearer to END by a measure that cannot fall below 0.
C1_Termination ==
    /\ <>(pc = "END" /\ node = "respond")
    /\ [][Rank' < Rank /\ Rank' >= 0]_vars

\* a session that used all five rounds and all three rewrites has ended
C1_Witness ==
    /\ pc = "END"
    /\ node = "respond"
    /\ state.investigation_depth = 5
    /\ state.retry_count = 3

\* C2: investigation_depth never exceeds 5; and when analyze runs at depth >= 5
\* and the oracle asks for enhanced_analysis, the state it leaves has route
\* simple_chat, an empty tool_plan and the same depth, and execute does not follow.
C2_DepthCap ==
    /\ [](state.investigation_depth <= 5)
    /\ [][(pc = "analyze" /\ state.investigation_depth >= 5 /\ OracleSaysEnhanced(reply'))
            => /\ state'.route = simple_chat
               /\ state'.tool_plan = JList(<<>>)
               /\ state'.investigation_depth = state.investigation_depth
               /\ pc' # "execute"]_vars

\* analyze ran at depth 5, the oracle asked for more, the route was forced
C2_Witness ==
    /\ node = "analyze"
    /\ OracleSaysEnhanced(reply)
    /\ state.investigation_depth = 5
    /\ state.route = simple_chat
    /\ pc = "respond"

\* C3: retry_count never exceeds 3; the rewriter is entered only from the
\* grader, with data_quality bad and retry_count < 3; and once retry_count has
\* reached 3 every grading yields good.
C3_RetryCap ==
    /\ [](state.retry_count <= 3)
    /\ [][pc' = "rewriter"
            => pc = "grader" /\ state'.data_quality = "bad" /\ state'.retry_count < 3]_vars
    /\ [][(pc = "grader" /\ state.retry_count >= 3)
            => state'.data_quality = "good"]_vars

\* after three rewrites a round without any meaningful result was graded good
C3_Witness ==
    /\ node = "grader"
    /\ state.retry_count = 3
    /\ NoneMeaningful(state.tool_results)
    /\ state.data_quality = "good"
    /\ pc = "analyze"

\* C4: the steps between nodes are START -> analyze; analyze -> execute exactly
\* when route is enhanced_analysis, analyze -> respond for any other route,
\* an absent one included; execute -> grader; grader -> rewriter exactly when
\* data_quality is bad and retry_count < 3, else grader -> analyze;
\* rewriter -> analyze; respond -> END.
C4_Transitions ==
    /\ [](Target(route_decision([state EXCEPT !.route = Absent])) = "respond")
    /\ [][pc' # "CRASHED" =>
            \/ pc = "START" /\ pc' = "analyze"
            \/ /\ pc = "analyze"
               /\ pc' = IF state'.route = enhanced_analysis THEN "execute" ELSE "respond"
            \/ pc = "execute" /\ pc' = "grader"
            \/ /\ pc = "grader"
               /\ pc' = IF state'.data_quality = "bad" /\ state'.retry_count < 3
                        THEN "rewriter" ELSE "analyze"
            \/ pc = "rewriter" /\ pc' = "analyze"
            \/ pc = "respond" /\ pc' = "END"]_vars

\* a session that went through execute, grader and rewriter has ended
C4_Witness ==
    /\ pc = "END"
    /\ node = "respond"
    /\ state.retry_count > 0
    /\ state.investigation_depth > state.retry_count

\* C5: graded with retry_count < 3, tool_results is good exactly when one of
\* its elements is judged meaningful by _check_single_result; it is bad when
\* none is, and bad for the empty list and for None.
C5_PartialSuccess ==
    (pc = "returned" /\ node = "grader" /\ state.retry_count < 3)
        => /\ state.data_quality = "good"
                <=> \E i \in 1..Len(OrEmpty(state.tool_results).l) :
                        _check_single_result(OrEmpty(state.tool_results).l[i])
           /\ state.tool_results \in {JNull, JList(<<>>)} => state.data_quality = "bad"

\* a list whose first element failed and whose second is meaningful was graded good
C5_Witness ==
    /\ pc = "returned"
    /\ node = "grader"
    /\ state.retry_count < 3
    /\ IsList(state.tool_results)
    /\ Len(state.tool_results.l) = 2
    /\ ~_check_single_result(state.tool_results.l[1])
    /\ _check_single_result(state.tool_results.l[2])
    /\ state.data_quality = "good"

\* the payload is itself a mapping the grader unwraps or rejects
Unwrappable(x) ==
    /\ IsDict(x)
    /\ \/ HasKey(x, T_result)
       \/ HasKey(x, T_data)
       \/ DictGet(x, T_success, JNull) = JBool(FALSE)

\* C6 as stated: for every payload X, the element whose result is
\* {success: true, result: X} is judged meaningful exactly when the element
\* whose result is X is.
C6_EnvelopeInvariance == pc = "judged" => out.direct = out.wrapped

\* C6 as amended: the same, for every payload X that is not a mapping with a
\* "result" key, a "data" key or success = false.
C6_EnvelopeInvarianceOneLevel ==
    (pc = "judged" /\ ~Unwrappable(arg)) => out.direct = out.wrapped

\* a mapping with an "error" key was judged meaningful inside the envelope
C6_Witness ==
    /\ pc = "judged"
    /\ IsDict(arg)
    /\ HasKey(arg, T_error)
    /\ ~Unwrappable(arg)
    /\ out.wrapped
    /\ out.direct

\* C7: run with retry_count >= 3, the grader sets data_quality good whatever
\* tool_results holds (empty, None, only failures, meaningful data), and the
\* edge taken after it is grader -> analyze, not the rewriter.
C7_RetryExhaustion ==
    (pc = "returned" /\ node = "grader" /\ state.retry_count >= 3)
        => /\ state.data_quality = "good"
           /\ Target(grader_decision(state)) = "analyze"

\* the grader accepted None after three rewrites
C7_Witness ==
    /\ pc = "returned"
    /\ node = "grader"
    /\ state.retry_count = 3
    /\ state.tool_results = JNull
    /\ state.data_quality = "good"

\* C8: after analyze, route is one of the two routes and a route of
\* simple_chat comes with an empty tool_plan, whatever the oracle returned.
C8_RoutePlan ==
    node = "analyze"
        => /\ state.route \in {simple_chat, enhanced_analysis}
           /\ state.route = simple_chat => state.tool_plan = JList(<<>>)

\* C9: respond sends the evidence-grounded prompt with all_tool_results
\* whenever all_tool_results is non-empty, whatever the route; with
\* tool_results when all_tool_results is empty and tool_results is not; and
\* the plain prompt exactly when both are empty or None.
C9_ResponderPath ==
    [][node' = "respond" =>
        LET all == state.all_tool_results
            round == state.tool_results
        IN  /\ Truthy(all) => /\ prompt'.kind = "ENHANCED_ANALYSIS_PROMPT"
                              /\ prompt'.evidence = all.l
            /\ (~Truthy(all) /\ Truthy(round))
                  => /\ prompt'.kind = "ENHANCED_ANALYSIS_PROMPT"
                     /\ prompt'.evidence = round.l
            /\ prompt'.kind = "SIMPLE_CHAT_PROMPT"
                  <=> (~Truthy(all) /\ ~Truthy(round))]_vars

\* with route simple_chat and nothing accumulated, respond used tool_results
C9_Witness ==
    /\ pc = "returned"
    /\ node = "respond"
    /\ state.route = simple_chat
    /\ state.all_tool_results = JList(<<>>)
    /\ Truthy(state.tool_results)
    /\ prompt.kind = "ENHANCED_ANALYSIS_PROMPT"
    /\ prompt.evidence = state.tool_results.l

\* C10: the user_query the rewriter writes is never the empty string,
\* whatever text the oracle returned.
C10_QueryNotEmpty ==
    (node = "rewriter" /\ reply.kind = "text") => Len(state.user_query) > 0

\* C11: in graph_with_hitl the execute node is entered only by resuming a
\* paused run, with the state (tool_plan included) the pause showed; a pause
\* is followed only by execute or by the abort; after an abort nothing runs,
\* so tool_results stays what it was; and a run pauses only after analyze
\* chose "execute".
C11_PauseBeforeFetch ==
    [][/\ (pc' = "execute" /\ pc # "execute") => (pc = "paused" /\ state' = state)
       /\ node' = "execute" /\ pc = "execute" =>
              /\ Len(state'.tool_results.l) = Len(OrEmpty(state.tool_plan).l)
              /\ pc' = "grader"
       /\ pc = "paused" => (pc' \in {"execute", "ABORTED"} /\ state' = state)
       /\ pc = "ABORTED" => (pc' = "ABORTED" /\ state' = state)
       /\ (pc' = "paused" /\ pc # "paused") =>
              /\ pc = "analyze"
              /\ route_decision(state') = "execute"
       /\ (pc \in {"analyze", "grader", "rewriter", "START"}) => pc' # "execute"
      ]_vars

\* a second round of tools was planned, shown at the pause and given up:
\* the results are those of the first round only
C11_Witness ==
    /\ pc = "ABORTED"
    /\ state.investigation_depth = 2
    /\ Len(OrEmpty(state.tool_plan).l) = 2
    /\ Len(OrEmpty(state.tool_results).l) = 1

\* C12: analyze_node adds exactly 1 to investigation_depth when the route it
\* returns (after validation and the depth valve) is enhanced_analysis and
\* leaves it alone when that route is simple_chat; execute, grader, rewriter
\* and respond leave investigation_depth alone.
C12_DepthIncrement ==
    [][/\ node' = "analyze" =>
              /\ state'.route \in {simple_chat, enhanced_analysis}
              /\ state'.route = enhanced_analysis =>
                     state'.investigation_depth = state.investigation_depth + 1
              /\ state'.route = simple_chat =>
                     state'.investigation_depth = state.investigation_depth
       /\ node' \in {"execute", "grader", "rewriter", "respond"} =>
              state'.investigation_depth = state.investigation_depth
      ]_vars

\* analyze called at depth 4 returned enhanced_analysis and depth 5
C12_Witness ==
    /\ pc = "returned"
    /\ node = "analyze"
    /\ state.route = enhanced_analysis
    /\ state.investigation_depth = MaxDepth

\* the oracle call of analyze_node raised, or its answer is not the text of
\* a JSON object
OracleFailed(r) == r.kind \in {"raise", "unparsable"} \/ (r.kind = "json" /\ ~IsDict(r.value))

\* C13: when the oracle call of analyze_node raises or its answer cannot be
\* read as a decision, analyze_node returns: route simple_chat, tool_plan [],
\* a query_analysis carrying the error text under "error", the
\* investigation_depth it was called with; route_decision then says respond.
C13_DecideFailure ==
    [][(node' = "analyze" /\ OracleFailed(reply')) =>
           /\ pc' = "returned"
           /\ state'.route = simple_chat
           /\ state'.tool_plan = JList(<<>>)
           /\ IsDict(state'.query_analysis)
           /\ DictGet(state'.query_analysis, T_error, Absent) \in
                  {JStr(T_timeout), JStr(T_expecting), JStr(T_attr_error)}
           /\ state'.investigation_depth = state.investigation_depth
           /\ Target(route_decision(state')) = "respond"
      ]_vars

\* analyze, called at depth 2 with a route asking for tools, could not read
\* the oracle's answer
C13_Witness ==
    /\ pc = "returned"
    /\ node = "analyze"
    /\ reply.kind = "unparsable"
    /\ state.investigation_depth = 2
    /\ state.route = simple_chat
    /\ HasKey(state.query_analysis, T_error)

\* C14: when the oracle call of analyze_node fails, all_tool_results after
\* the node is what it was before the node, also when tool_results was not
\* empty on entry.
C14_FailureKeepsAccumulated ==
    [][(node' = "analyze" /\ OracleFailed(reply')) =>
           state'.all_tool_results = state.all_tool_results
      ]_vars

\* C14, amended: when the oracle call of analyze_node fails, all_tool_results
\* after the node is all_tool_results before it (None read as []) followed
\* by the elements of tool_results; it is what it was before when
\* tool_results is None, missing or empty.
C14_FailureAppendsRound ==
    [][(node' = "analyze" /\ OracleFailed(reply')) =>
           IF Truthy(Get(state, "tool_results", JList(<<>>)))
           THEN state'.all_tool_results =
                    JList(OrEmpty(state.all_tool_results).l \o state.tool_results.l)
           ELSE state'.all_tool_results = state.all_tool_results
      ]_vars

\* the oracle call failed in an analyze_node entered with one accumulated
\* result and two results of the round
C14_Witness ==
    /\ pc = "respond"
    /\ node = "analyze"
    /\ OracleFailed(reply)
    /\ Len(OrEmpty(state.tool_results).l) = 2
    /\ Len(OrEmpty(state.all_tool_results).l) = 3

\* C15: when rewriter_node runs with retry_count < 3 and the oracle returns,
\* the state after it has user_query = the oracle's text stripped of outer
\* whitespace and quotes, retry_count one higher, tool_plan, tool_results
\* and query_analysis None, and one more message; all_tool_results,
\* investigation_depth, data_quality, route and final_response are as before.
C15_RewriterEffects ==
    [][(node' = "rewriter" /\ reply'.kind = "text") =>
           /\ state.retry_count < MaxRetries
           /\ state'.user_query = RewrittenQuery(reply'.content)
           /\ state'.retry_count = state.retry_count + 1
           /\ state'.tool_plan = JNull
           /\ state'.tool_results = JNull
           /\ state'.query_analysis = JNull
           /\ Len(state'.messages) = Len(state.messages) + 1
           /\ SubSeq(state'.messages, 1, Len(state.messages)) = state.messages
           /\ state'.all_tool_results = state.all_tool_results
           /\ state'.investigation_depth = state.investigation_depth
           /\ state'.data_quality = state.data_quality
           /\ state'.route = state.route
           /\ state'.final_response = state.final_response
      ]_vars

\* the third rewrite, of a round of two results graded bad, with the quotes
\* and the newline of the oracle's text removed
C15_Witness ==
    /\ pc = "returned"
    /\ node = "rewriter"
    /\ reply.kind = "text"
    /\ reply.content = <<"\"">> \o T_acme_cart \o <<"\"", "\n">>
    /\ state.user_query = T_acme_cart
    /\ state.retry_count = MaxRetries
    /\ state.data_quality = "bad"
    /\ Len(prompt.evidence) = 2
    /\ state.tool_results = JNull

\* C16: rewriter_node called with retry_count >= 3 calls no oracle, leaves
\* user_query, retry_count, tool_plan, tool_results, query_analysis and
\* messages as they were, and sets data_quality to good.
C16_RewriterSafetyNet ==
    [][(node' = "rewriter" /\ state.retry_count >= MaxRetries) =>
           /\ pc' = "returned"
           /\ reply' = NoReply
           /\ prompt' = NoPrompt
           /\ state'.user_query = state.user_query
           /\ state'.retry_count = state.retry_count
           /\ state'.tool_plan = state.tool_plan
           /\ state'.tool_results = state.tool_results
           /\ state'.query_analysis = state.query_analysis
           /\ state'.messages = state.messages
           /\ state'.data_quality = "good"
      ]_vars

\* rewriter_node returned from a call with retry_count 4 and a round of two
\* results, none of them meaningful
C16_Witness ==
    /\ pc = "returned"
    /\ node = "rewriter"
    /\ state.retry_count = MaxRetries + 1
    /\ state.data_quality = "good"
    /\ Len(OrEmpty(state.tool_results).l) = 2
    /\ NoneMeaningful(state.tool_results)

\* C17: when the oracle call of rewriter_node raises, the exception does not
\* leave rewriter_node: the node returns with user_query as it was and the
\* graph goes on to analyze.
C17_RewriterContainsFailure ==
    [][(node' = "rewriter" /\ reply'.kind = "raise") =>
           /\ pc' = "analyze"
           /\ state'.user_query = state.user_query
      ]_vars

\* C18: no node lowers retry_count or investigation_depth, whatever values
\* the node is called with.
C18_CountersMonotone ==
    [][/\ state'.retry_count >= state.retry_count
       /\ state'.investigation_depth >= state.investigation_depth
      ]_vars

\* analyze, called with retry_count 2 and depth 3, asked for another round
C18_Witness ==
    /\ pc = "returned"
    /\ node = "analyze"
    /\ state.retry_count = 2
    /\ state.investigation_depth = 4
    /\ state.route = enhanced_analysis

\* the elements of a list value, None and a missing value read as no elements
Elements(v) == OrEmpty(v).l

\* C19: for every node, all_tool_results before the node is a prefix of
\* all_tool_results after it (None read as []); analyze_node appends exactly
\* the elements of tool_results; execute, grader, rewriter and respond leave
\* the elements as they are.
C19_AppendOnly ==
    [][/\ Len(Elements(state.all_tool_results)) <= Len(Elements(state'.all_tool_results))
       /\ SubSeq(Elements(state'.all_tool_results), 1,
                 Len(Elements(state.all_tool_results)))
              = Elements(state.all_tool_results)
       /\ node' = "analyze" =>
              Elements(state'.all_tool_results)
                  = Elements(state.all_tool_results) \o Elements(state.tool_results)
       /\ node' \in {"execute", "grader", "rewriter", "respond"} =>
              Elements(state'.all_tool_results) = Elements(state.all_tool_results)
      ]_vars

\* analyze appended a round of two results to one accumulated result and
\* asked for another round
C19_Witness ==
    /\ pc = "returned"
    /\ node = "analyze"
    /\ state.route = enhanced_analysis
    /\ Len(Elements(state.tool_results)) = 2
    /\ Len(Elements(state.all_tool_results)) = 3
    /\ state.all_tool_results.l[1] # state.all_tool_results.l[2]

C21_DepthCountsRounds ==
    /\ (node = "grader" \/ pc = "END") =>
           state.investigation_depth = rounds.executed
    /\ pc \in {"paused", "ABORTED"} =>
           state.investigation_depth = rounds.executed

\* C22: messages only grows: for every node, messages before the node is a
\* prefix of messages after it; a rewrite that called the oracle appends
\* one message, respond appends two (the current user_query, then the
\* answer), analyze, execute and grader append none; at the end of a session
\* started with no messages there are retry_count + 2 of them.
C22_MessagesAppendOnly ==
    [][/\ Len(state.messages) <= Len(state'.messages)
       /\ SubSeq(state'.messages, 1, Len(state.messages)) = state.messages
       /\ (node' = "rewriter" /\ reply'.kind = "text") =>
              Len(state'.messages) = Len(state.messages) + 1
       /\ (node' = "respond" /\ reply'.kind = "text") =>
              /\ Len(state'.messages) = Len(state.messages) + 2
              /\ state'.messages[Len(state.messages) + 1] = HumanMessage(state.user_query)
              /\ state'.messages[Len(state.messages) + 2] = AIMessage(reply'.content)
       /\ node' \in {"analyze", "execute", "grader"} =>
              state'.messages = state.messages
       /\ pc' = "END" => Len(state'.messages) = state'.retry_count + 2
      ]_vars

\* a session ended after three rewrites: five messages, the last two being
\* the query as last rewritten and the answer
C22_Witness ==
    /\ pc = "END"
    /\ state.retry_count = MaxRetries
    /\ Len(state.messages) = 5
    /\ state.messages[1].type = "human"
    /\ state.messages[4] = HumanMessage(state.user_query)
    /\ state.messages[5] = AIMessage(T_answer)

\* C23: in the state respond_node leaves, final_response is set and
\* tool_results and all_tool_results are lists, never None, also when a
\* rewrite had set tool_results to None or the session started with
\* all_tool_results None.
C23_ResponderNormalizes ==
    (node = "respond" /\ pc = "END") =>
        /\ IsStr(state.final_response)
        /\ IsList(state.tool_results)
        /\ IsList(state.all_tool_results)

\* the session ended right after a rewrite: one round, graded bad, one
\* rewrite, then analyze chose to respond; both lists are []
C23_Witness ==
    /\ pc = "END"
    /\ node = "respond"
    /\ state.retry_count = 1
    /\ state.investigation_depth = 1
    /\ state.tool_results = JList(<<>>)
    /\ state.all_tool_results = JList(<<>>)
    /\ prompt.kind = "SIMPLE_CHAT_PROMPT"

\* C24: final_response is written by respond_node only: it is unset in every
\* state in which respond_node has not returned, no other node changes it,
\* and the one step that writes it is the step that ends the session.
C24_FinalResponseOnlyByRespond ==
    [][/\ pc # "END" => state.final_response = Absent
       /\ node' # "respond" => state'.final_response = state.final_response
       /\ state'.final_response # state.final_response =>
              /\ pc = "respond"
              /\ pc' = "END"
              /\ state'.final_response = JStr(reply'.content)
       /\ pc' = "END" => state'.final_response # Absent
      ]_vars

\* a session that went through analyze, execute, grader and rewriter before
\* respond wrote the answer
C24_Witness ==
    /\ pc = "END"
    /\ state.final_response = JStr(T_answer)
    /\ state.retry_count = 2
    /\ state.investigation_depth = 4

\* the value execute_tool is to return for a failed execution
FailureValue(v) ==
    /\ IsDict(v)
    /\ Truthy(DictGet(v, T_error, JNull))
    /\ DictGet(v, T_success, Absent) = JBool(FALSE)

\* the result field of every element of a round
Payloads_of(tool_results) ==
    [i \in 1..Len(Elements(tool_results)) |->
        DictGet(Elements(tool_results)[i], T_result, JDict(<<>>))]

\* C25: execute_tool returns a failed execution (a status other than 200,
\* an exception of the exchange) as a value with error set and success
\* false; grader_node with retry_count < 3 grades a round whose payloads are
\* all such values bad, and grader_decision then says rewrite; a round with
\* a meaningful payload next to such values is graded good.
C25_FailuresAreData ==
    [][/\ \A http \in {[kind |-> "exception", msg |-> T_timeout],
                        [kind |-> "status", status |-> 500, text |-> T_boom],
                        [kind |-> "status", status |-> 404, text |-> <<>>]} :
              FailureValue(execute_tool(http))
       /\ node' = "execute" =>
              \A i \in 1..Len(Elements(state'.tool_results)) :
                  reply'.https[i].kind # "ok" =>
                      FailureValue(Payloads_of(state'.tool_results)[i])
       /\ (node' = "grader" /\ state.retry_count < MaxRetries) =>
              LET payloads == Payloads_of(Get(state, "tool_results", JList(<<>>)))
              IN  /\ (\A i \in 1..Len(payloads) : FailureValue(payloads[i])) =>
                         /\ state'.data_quality = "bad"
                         /\ Target(grader_decision(state')) = "rewriter"
                  /\ (/\ \E i \in 1..Len(payloads) : payloads[i] = GoodBody
                      /\ \A i \in 1..Len(payloads) :
                             payloads[i] = GoodBody \/ FailureValue(payloads[i])) =>
                         state'.data_quality = "good"
      ]_vars

\* grader_node graded a round of a timeout and a status 500 bad
C25_Witness ==
    /\ pc = "returned"
    /\ node = "grader"
    /\ state.retry_count = 2
    /\ state.data_quality = "bad"
    /\ Len(Elements(state.tool_results)) = 2
    /\ FailureValue(Payloads_of(state.tool_results)[1])
    /\ FailureValue(Payloads_of(state.tool_results)[2])
    /\ Payloads_of(state.tool_results)[1] # Payloads_of(state.tool_results)[2]

\* the payload one level down: the result field, else the data field, of a
\* mapping; anything else as it is
OneLevelDown(payload) ==
    IF IsDict(payload) /\ HasKey(payload, T_result) THEN DictGet(payload, T_result, JNull)
    ELSE IF IsDict(payload) /\ HasKey(payload, T_data) THEN DictGet(payload, T_data, JNull)
    ELSE payload

\* the structural test as the five steps word it; text counts when blankIsEmpty
\* is FALSE if it has a character, when TRUE if it has one that is not whitespace
StructurallyMeaningful(v, blankIsEmpty) ==
    CASE v.t = "null" -> FALSE
      [] v.t = "list" -> v.l # <<>>
      [] v.t = "dict" ->
            \E i \in 1..Len(v.d) :
                /\ v.d[i].k \notin {T_meta, T_metadata, T_pagination, T_success}
                /\ v.d[i].v \notin {JNull, JStr(<<>>), JList(<<>>), JDict(<<>>)}
      [] v.t = "str" ->
            IF blankIsEmpty THEN \E i \in 1..Len(v.s) : v.s[i] \notin Whitespace
            ELSE v.s # <<>>
      [] v.t \in {"num", "bool"} -> TRUE

\* the verdict of the five ordered steps on an element with this payload
FiveSteps(hasError, payload, blankIsEmpty) ==
    IF hasError \/ (IsDict(payload) /\ DictGet(payload, T_success, Absent) = JBool(FALSE))
    THEN FALSE
    ELSE LET unwrapped == OneLevelDown(payload)
         IN  IF IsList(unwrapped) /\ unwrapped.l # <<>> THEN TRUE
             ELSE IF HasBadPattern(unwrapped) THEN FALSE
             ELSE StructurallyMeaningful(unwrapped, blankIsEmpty)

CheckpointOf(store, thread_id) == store[CheckpointKey(thread_id)]

C28_BadImpliesRetriesLeft ==
    [][/\ node' = "grader" =>
             /\ state'.data_quality = "bad" => state'.retry_count < MaxRetries
             /\ pc' = "rewriter" <=> state'.data_quality = "bad"
       /\ node' = "rewriter" =>
             /\ state.retry_count < MaxRetries
             /\ state.data_quality = "bad"
             /\ pc' = "analyze" => state'.retry_count = state.retry_count + 1
      ]_vars

\* the grader has just passed a round without meaningful data because the
\* three retries are used up
C28_Witness ==
    /\ node = "grader"
    /\ state.retry_count = MaxRetries
    /\ ~_check_result_quality(state.tool_results)
    /\ state.data_quality = "good"
    /\ pc = "analyze"

\* C29: in a session started with both counters at 0, retry_count never
\* exceeds investigation_depth; the session runs at most 5 rounds of tools and
\* at most 6 analyze steps, the rounds repeated after a rewrite included; and
\* retry_count is 3 only after at least 3 rounds of tools have run.
C29_RewritesConsumeDepth ==
    /\ state.retry_count <= state.investigation_depth
    /\ rounds.executed <= MaxDepth
    /\ rounds.decided <= MaxDepth + 1
    /\ state.retry_count <= rounds.executed
    /\ state.retry_count = MaxRetries => rounds.executed >= MaxRetries

\* three rounds were rewritten, then two more rounds ran and the sixth
\* analyze step was forced to answer
C29_Witness ==
    /\ pc = "respond"
    /\ state.retry_count = MaxRetries
    /\ state.investigation_depth = MaxDepth
    /\ rounds.executed = MaxDepth
    /\ rounds.decided = MaxDepth + 1

\* the last Len(part) elements of whole are part
EndsWith(whole, part) ==
    /\ Len(part) <= Len(whole)
    /\ \A i \in 1..Len(part) : whole[Len(whole) - Len(part) + i] = part[i]

\* C30: whenever a session enters the respond stage, every element of
\* tool_results is already in all_tool_results (a non-empty tool_results
\* comes with a non-empty all_tool_results), after a decision and after a
\* failed one alike, so the evidence the responder embeds is always
\* all_tool_results and never the tool_results it would fall back to.
C30_RoundAlreadyAccumulated ==
    [][/\ pc' = "respond" =>
             /\ node' = "analyze"
             /\ \A i \in 1..Len(Elements(state'.tool_results)) :
                    \E j \in 1..Len(Elements(state'.all_tool_results)) :
                       Elements(state'.all_tool_results)[j] = Elements(state'.tool_results)[i]
             /\ EndsWith(Elements(state'.all_tool_results), Elements(state'.tool_results))
             /\ Truthy(state'.tool_results) => Truthy(state'.all_tool_results)
             /\ results_to_use(state') = OrEmpty(state'.all_tool_results)
       /\ (node' = "respond" /\ pc' = "END") =>
             /\ prompt'.evidence = Elements(state.all_tool_results)
             /\ Truthy(state.tool_results) => prompt'.kind = "ENHANCED_ANALYSIS_PROMPT"
      ]_vars

\* the responder has answered from two accumulated rounds, the second of
\* them one result long, after the analyzer decided to stop
C30_Witness ==
    /\ pc = "END"
    /\ node = "respond"
    /\ ~OracleFailed(reply)
    /\ Len(Elements(state.tool_results)) = 1
    /\ Len(Elements(state.all_tool_results)) = 2
    /\ prompt.evidence = Elements(state.all_tool_results)
    /\ prompt.evidence # Elements(state.tool_results)

====
